---- MODULE Spec2Model ----
(***************************************************************************)
(* compare_excel_files of "Check Part Number.pushbutton/script.py": the    *)
(* sequential comparison of consecutive Excel snapshots grouped by         *)
(* 'Part Location', and the text report it writes.                         *)
(*                                                                         *)
(* A file is [readable, columns, rows]: whether pd.read_excel succeeds on  *)
(* it, the columns of its "Glazing Master" sheet and the rows (each a      *)
(* function from the columns to cell values).  The report f is the         *)
(* sequence of sections written so far, one per loop iteration, each a     *)
(* sequence of entries (one entry per block of lines the code writes).     *)
(***************************************************************************)
EXTENDS Integers, Sequences, FiniteSets, TLC

\* ---------------------------------------------------------------- bounds
\* Most rows in one sheet (specifications Spec and SpecKeys).
MaxRows == 2
\* Most files in one run and most rows in one sheet (specification SpecRun).
MaxFiles == 3
RunMaxRows == 1

\* ------------------------------------------------------- program constants
\* len(file_paths) < 2 raises ValueError.
MinFiles == 2
\* The key column.
PartLocation == "Part Location"

\* ------------------------------------------------------------ input values
\* Every cell holds a value (no blank cells). Specification Spec: two keys,
\* two cell values, and as column sets the key column with one of two data
\* columns, the key column alone, and a sheet without the key column.
Keys == {"L1", "L2"}
Values == {"A", "B"}
Schemas == {{PartLocation, "Material"}, {PartLocation, "Part Number"},
            {PartLocation}, {"Material"}}
\* Specification SpecKeys: three keys, one cell value.
ManyKeys == {"L1", "L2", "L3"}
OneValue == {"A"}
KeysSchemas == {{PartLocation, "Material"}, {"Material"}}
\* Specification SpecRun: one key, two cell values.
RunKeys == {"L1"}
RunSchemas == {{PartLocation, "Material"}, {"Material"}}

\* Python's None, and the '' default of dict.get(col, '').
None == [None |-> "None"]
Empty == ""

Min(S) == CHOOSE x \in S : \A y \in S : x <= y

SeqsUpTo(S, n) == UNION {[1..m -> S] : m \in 0..n}

RowsOf(cols, keys, values) ==
  {r \in [cols -> keys \cup values] :
     \A c \in cols : IF c = PartLocation THEN r[c] \in keys ELSE r[c] \in values}

Unreadable == [readable |-> FALSE, columns |-> {}, rows |-> <<>>]

\* The files a run may be given: an unreadable one, and the sheets of each
\* column set, every row having exactly the sheet's columns.
Files(schemas, keys, values, n) ==
  {Unreadable} \cup
  UNION {{[readable |-> TRUE, columns |-> cols, rows |-> rows] :
            rows \in SeqsUpTo(RowsOf(cols, keys, values), n)} : cols \in schemas}

VARIABLES
  file_paths,            \* the argument: the files, in the caller's order
  pc,                    \* where compare_excel_files is
  i,                     \* the loop variable of "for i in range(1, len(file_paths))"
  f,                     \* the report: one section per loop iteration
  orders,                \* per section, the keys in the order the set iteration gave them
  all_part_locations,    \* the keys of the pair not yet iterated
  part_loc,
  added_flag, removed_flag, changes_flag,
  prev_dicts, curr_dicts,
  matched_indices_prev, matched_indices_curr,
  changes,
  p_idx, c_idx

vars == <<file_paths, pc, i, f, orders, all_part_locations, part_loc,
          added_flag, removed_flag, changes_flag, prev_dicts, curr_dicts,
          matched_indices_prev, matched_indices_curr, changes, p_idx, c_idx>>

flags == <<added_flag, removed_flag, changes_flag>>
matching == <<prev_dicts, curr_dicts, matched_indices_prev, matched_indices_curr,
              changes, p_idx, c_idx>>

\* ------------------------------------------------------------- data frames
df_prev == file_paths[i]
df_curr == file_paths[i + 1]

\* df.groupby('Part Location').groups: the key values that occur.
GroupKeys(df) == {df.rows[x][PartLocation] : x \in 1..Len(df.rows)}

\* grouped.get_group(k): the rows with that key, in sheet order.
GetGroup(df, k) == SelectSeq(df.rows, LAMBDA r : r[PartLocation] = k)

\* rows.drop(columns=['Part Location']).to_dict(orient='records')
DropKey(r) == [c \in DOMAIN r \ {PartLocation} |-> r[c]]
ToDicts(rows) == [x \in 1..Len(rows) |-> DropKey(rows[x])]

\* p_row == c_row on dicts: the same columns with the same values.
RowEq(p, c) == p = c

\* The truth value of a change's side: None and the empty dict are false.
Truthy(d) == d # None /\ DOMAIN d # {}

\* d.get(col, '')
Get(d, col) == IF col \in DOMAIN d THEN d[col] ELSE Empty

\* ------------------------------------------------------------ report entries
ReadError(n) == [t |-> "ReadError", prev |-> n, curr |-> n + 1]
MissingKeyColumn(n) == [t |-> "MissingKeyColumn", prev |-> n, curr |-> n + 1]
ComparisonHeader(n) == [t |-> "Comparison", i |-> n, prev |-> n, curr |-> n + 1]
AddedHeader == [t |-> "NEW PART LOCATIONS ADDED"]
RemovedHeader == [t |-> "PART LOCATIONS REMOVED"]
ChangesHeader == [t |-> "PART LOCATION CHANGES"]
AddedEntry(k, row) == [t |-> "Added", key |-> k, row |-> row]
RemovedEntry(k, row) == [t |-> "Removed", key |-> k, row |-> row]
ChangedEntry(k, lines) == [t |-> "Changed", key |-> k, lines |-> lines]
NoDifferences == [t |-> "No differences found"]
EndOfComparison == [t |-> "End"]

\* "for _, row in rows.iterrows()": one entry a row, in sheet order.
AddedEntries(k, rows) == [x \in 1..Len(rows) |-> AddedEntry(k, rows[x])]
RemovedEntries(k, rows) == [x \in 1..Len(rows) |-> RemovedEntry(k, rows[x])]

\* The writer of one comparison: the lines of its section and the section flags.
Writer(lines, a, r, c) ==
  [lines |-> lines, added_flag |-> a, removed_flag |-> r, changes_flag |-> c]

\* Lines 287-296: a key of the current file only.
WriteAdded(w, k, curr_rows) ==
  [w EXCEPT !.lines = (IF w.added_flag THEN @ ELSE Append(@, AddedHeader))
                        \o AddedEntries(k, curr_rows),
            !.added_flag = TRUE]

\* WriteRemoved iterating the rows of the wrong file (curr_rows, which is empty
\* for a key of the previous file only).
WriteRemoved_IteratingCurrRows(w, k, prev_rows) ==
  [w EXCEPT !.lines = (IF w.removed_flag THEN @ ELSE Append(@, RemovedHeader)),
            !.removed_flag = TRUE]

\* Lines 299-308: a key of the previous file only.
WriteRemoved(w, k, prev_rows) ==
  [w EXCEPT !.lines = (IF w.removed_flag THEN @ ELSE Append(@, RemovedHeader))
                        \o RemovedEntries(k, prev_rows),
            !.removed_flag = TRUE]

\* ------------------------------------------------------------- row matching
\* The matching state of one key.
Matching(mp, mc, ch) ==
  [matched_indices_prev |-> mp, matched_indices_curr |-> mc, changes |-> ch]

\* FirstMatch without the test that skips the rows already matched.
FirstMatch_NotSkippingMatched(row, dicts, matched) ==
  LET S == {x \in 1..Len(dicts) : RowEq(row, dicts[x])}
  IN  IF S = {} THEN 0 ELSE Min(S)

\* The inner scans: the first index of dicts not in matched whose row equals row,
\* or 0 when the scan ends without a match.
FirstMatch(row, dicts, matched) ==
  LET S == {x \in 1..Len(dicts) : x \notin matched /\ RowEq(row, dicts[x])}
  IN  IF S = {} THEN 0 ELSE Min(S)

\* MatchPrevStep comparing the previous row with the current row of the same
\* position only, instead of scanning the current rows.
MatchPrevStep_SamePositionOnly(m, pd, cd, p) ==
  IF p <= Len(cd) /\ p \notin m.matched_indices_curr /\ RowEq(pd[p], cd[p])
  THEN [m EXCEPT !.matched_indices_prev = @ \cup {p},
                 !.matched_indices_curr = @ \cup {p}]
  ELSE [m EXCEPT !.changes = Append(@, [previous |-> pd[p], current |-> None])]

\* Lines 321-332, one iteration of the loop over prev_dicts.
MatchPrevStep(m, pd, cd, p) ==
  LET c == FirstMatch(pd[p], cd, m.matched_indices_curr)
  IN  IF c # 0
      THEN [m EXCEPT !.matched_indices_prev = @ \cup {p},
                     !.matched_indices_curr = @ \cup {c}]
      ELSE [m EXCEPT !.changes = Append(@, [previous |-> pd[p], current |-> None])]

\* Lines 334-347, one iteration of the loop over curr_dicts.
MatchCurrStep(m, pd, cd, c) ==
  IF c \in m.matched_indices_curr THEN m
  ELSE LET p == FirstMatch(cd[c], pd, m.matched_indices_prev)
       IN  IF p # 0
           THEN [m EXCEPT !.matched_indices_prev = @ \cup {p},
                          !.matched_indices_curr = @ \cup {c}]
           ELSE [m EXCEPT !.changes = Append(@, [previous |-> None, current |-> cd[c]])]

\* Lines 360-375: the lines written for one entry of changes.
ChangeLines(change, columns) ==
  IF Truthy(change.previous) /\ ~Truthy(change.current)
  THEN <<[t |-> "Row Removed", row |-> change.previous]>>
  ELSE IF ~Truthy(change.previous) /\ Truthy(change.current)
  THEN <<[t |-> "Row Added", row |-> change.current]>>
  ELSE IF Truthy(change.previous) /\ Truthy(change.current)
  THEN <<[t |-> "Row Changed",
          diff |-> [col \in {c \in columns :
                               Get(change.previous, c) # Get(change.current, c)} |->
                      <<Get(change.previous, col), Get(change.current, col)>>]]>>
  ELSE <<>>

RECURSIVE AllChangeLines(_, _)
AllChangeLines(chs, columns) ==
  IF chs = <<>> THEN <<>>
  ELSE ChangeLines(Head(chs), columns) \o AllChangeLines(Tail(chs), columns)

\* WriteChanges without the test total_matches == 0.
WriteChanges_WhateverMatched(w, k, m, columns) ==
  IF m.changes # <<>>
  THEN [w EXCEPT !.lines = (IF w.changes_flag THEN @ ELSE Append(@, ChangesHeader))
                             \o <<ChangedEntry(k, AllChangeLines(m.changes, columns))>>,
                 !.changes_flag = TRUE]
  ELSE w

\* WriteChanges testing whether the first previous row was matched, instead
\* of the number of matches.
WriteChanges_IfFirstRowUnmatched(w, k, m, columns) ==
  IF m.changes # <<>> /\ 1 \notin m.matched_indices_prev
  THEN [w EXCEPT !.lines = (IF w.changes_flag THEN @ ELSE Append(@, ChangesHeader))
                             \o <<ChangedEntry(k, AllChangeLines(m.changes, columns))>>,
                 !.changes_flag = TRUE]
  ELSE w

\* Lines 349-375: what is written for a key of both files once it is matched.
WriteChanges(w, k, m, columns) ==
  IF m.changes # <<>> /\ Cardinality(m.matched_indices_prev) = 0
  THEN [w EXCEPT !.lines = (IF w.changes_flag THEN @ ELSE Append(@, ChangesHeader))
                             \o <<ChangedEntry(k, AllChangeLines(m.changes, columns))>>,
                 !.changes_flag = TRUE]
  ELSE w

\* WriteEnd testing the added and removed flags only.
WriteEnd_IgnoringChangesFlag(w) ==
  [w EXCEPT !.lines = (IF ~(w.added_flag \/ w.removed_flag)
                       THEN Append(@, NoDifferences) ELSE @)
                        \o <<EndOfComparison>>]

\* Lines 376-380: the end of one comparison.
WriteEnd(w) ==
  [w EXCEPT !.lines = (IF ~(w.added_flag \/ w.removed_flag \/ w.changes_flag)
                       THEN Append(@, NoDifferences) ELSE @)
                        \o <<EndOfComparison>>]

\* ------------------------------------------------------------------ the run
TypeOK ==
  /\ pc \in {"start", "read", "check", "keys", "match_prev", "match_curr",
              "write_changes", "done", "raised"}
  /\ i \in 1..Len(file_paths)
  /\ Len(orders) = Len(f)
  /\ added_flag \in BOOLEAN /\ removed_flag \in BOOLEAN /\ changes_flag \in BOOLEAN

InitWith(inputs) ==
  /\ file_paths \in inputs
  /\ pc = "start"
  /\ i = 1
  /\ f = <<>>
  /\ orders = <<>>
  /\ all_part_locations = {}
  /\ part_loc = None
  /\ added_flag = FALSE /\ removed_flag = FALSE /\ changes_flag = FALSE
  /\ prev_dicts = <<>> /\ curr_dicts = <<>>
  /\ matched_indices_prev = {} /\ matched_indices_curr = {}
  /\ changes = <<>>
  /\ p_idx = 1 /\ c_idx = 1

\* One file (refused) or one pair of files, with up to MaxRows rows a sheet.
Init ==
  InitWith(UNION {[1..n -> Files(Schemas, Keys, Values, MaxRows)] :
                    n \in (MinFiles - 1)..MinFiles})

\* The same with sheets of more keys.
InitKeys ==
  InitWith(UNION {[1..n -> Files(KeysSchemas, ManyKeys, OneValue, MaxRows)] :
                    n \in (MinFiles - 1)..MinFiles})

\* Up to MaxFiles files, with up to RunMaxRows rows a sheet.
InitRun ==
  InitWith(UNION {[1..n -> Files(RunSchemas, RunKeys, Values, RunMaxRows)] :
                    n \in (MinFiles - 1)..MaxFiles})

\* "continue", or the end of the loop body: the next pair, or return output_file.
NextPair ==
  IF i + 1 < Len(file_paths)
  THEN /\ i' = i + 1
       /\ pc' = "read"
  ELSE /\ i' = i
       /\ pc' = "done"

\* The section being written and its flags, as a writer; and their update.
CurrentWriter == Writer(f[Len(f)], added_flag, removed_flag, changes_flag)

SetWriter(w) ==
  /\ f' = [f EXCEPT ![Len(f)] = w.lines]
  /\ added_flag' = w.added_flag
  /\ removed_flag' = w.removed_flag
  /\ changes_flag' = w.changes_flag

\* Lines 229-246: the argument check; the report file is opened.
Start ==
  /\ pc = "start"
  /\ IF Len(file_paths) < MinFiles
     THEN pc' = "raised"
     ELSE pc' = "read"
  /\ UNCHANGED <<file_paths, i, f, orders, all_part_locations, part_loc, flags, matching>>

\* ReadPair letting the exception of pd.read_excel leave compare_excel_files.
ReadPair_Propagating ==
  /\ pc = "read"
  /\ IF ~df_prev.readable \/ ~df_curr.readable
     THEN pc' = "raised"
     ELSE pc' = "check"
  /\ UNCHANGED <<file_paths, i, f, orders, all_part_locations, part_loc, flags, matching>>

\* Lines 253-259: both sheets are read; a failure is written down and the pair skipped.
ReadPair ==
  /\ pc = "read"
  /\ IF ~df_prev.readable \/ ~df_curr.readable
     THEN /\ f' = Append(f, <<ReadError(i)>>)
          /\ orders' = Append(orders, <<>>)
          /\ NextPair
     ELSE /\ pc' = "check"
          /\ UNCHANGED <<i, f, orders>>
  /\ UNCHANGED <<file_paths, all_part_locations, part_loc, flags, matching>>

\* CheckKeyColumn leaving the loop ("break") when the key column is missing.
CheckKeyColumn_LeavingTheLoop ==
  /\ pc = "check"
  /\ IF PartLocation \notin df_prev.columns \/ PartLocation \notin df_curr.columns
     THEN /\ f' = Append(f, <<MissingKeyColumn(i)>>)
          /\ orders' = Append(orders, <<>>)
          /\ pc' = "done"
          /\ UNCHANGED <<i, all_part_locations, flags>>
     ELSE /\ all_part_locations' = GroupKeys(df_prev) \cup GroupKeys(df_curr)
          /\ f' = Append(f, <<ComparisonHeader(i)>>)
          /\ orders' = Append(orders, <<>>)
          /\ added_flag' = FALSE
          /\ removed_flag' = FALSE
          /\ changes_flag' = FALSE
          /\ pc' = "keys"
          /\ i' = i
  /\ UNCHANGED <<file_paths, part_loc, matching>>

\* CheckKeyColumn with the section flags initialised once, before the loop
\* over the pairs, instead of once a pair.
CheckKeyColumn_KeepingFlags ==
  /\ pc = "check"
  /\ IF PartLocation \notin df_prev.columns \/ PartLocation \notin df_curr.columns
     THEN /\ f' = Append(f, <<MissingKeyColumn(i)>>)
          /\ orders' = Append(orders, <<>>)
          /\ NextPair
          /\ UNCHANGED <<all_part_locations, flags>>
     ELSE /\ all_part_locations' = GroupKeys(df_prev) \cup GroupKeys(df_curr)
          /\ f' = Append(f, <<ComparisonHeader(i)>>)
          /\ orders' = Append(orders, <<>>)
          /\ UNCHANGED flags
          /\ pc' = "keys"
          /\ i' = i
  /\ UNCHANGED <<file_paths, part_loc, matching>>

\* Lines 261-280: the key column is required; the sheets are grouped, the
\* comparison's header is written and the section flags are cleared.
CheckKeyColumn ==
  /\ pc = "check"
  /\ IF PartLocation \notin df_prev.columns \/ PartLocation \notin df_curr.columns
     THEN /\ f' = Append(f, <<MissingKeyColumn(i)>>)
          /\ orders' = Append(orders, <<>>)
          /\ NextPair
          /\ UNCHANGED <<all_part_locations, flags>>
     ELSE /\ all_part_locations' = GroupKeys(df_prev) \cup GroupKeys(df_curr)
          /\ f' = Append(f, <<ComparisonHeader(i)>>)
          /\ orders' = Append(orders, <<>>)
          /\ added_flag' = FALSE
          /\ removed_flag' = FALSE
          /\ changes_flag' = FALSE
          /\ pc' = "keys"
          /\ i' = i
  /\ UNCHANGED <<file_paths, part_loc, matching>>

\* Lines 282-319: the set iteration yields some key not yet seen. A key of one
\* file only is written as added or removed; for a key of both files the
\* rows are converted and the matching starts.
NextKey ==
  /\ pc = "keys"
  /\ \E k \in all_part_locations :
       LET prev_rows == IF k \in GroupKeys(df_prev) THEN GetGroup(df_prev, k) ELSE <<>>
           curr_rows == IF k \in GroupKeys(df_curr) THEN GetGroup(df_curr, k) ELSE <<>>
       IN  /\ all_part_locations' = all_part_locations \ {k}
           /\ part_loc' = k
           /\ orders' = [orders EXCEPT ![Len(orders)] = Append(@, k)]
           /\ IF k \notin GroupKeys(df_prev)
              THEN /\ SetWriter(WriteAdded(CurrentWriter, k, curr_rows))
                   /\ UNCHANGED <<pc, matching>>
              ELSE IF k \notin GroupKeys(df_curr)
              THEN /\ SetWriter(WriteRemoved(CurrentWriter, k, prev_rows))
                   /\ UNCHANGED <<pc, matching>>
              ELSE IF prev_rows # <<>> /\ curr_rows # <<>>
              THEN /\ prev_dicts' = ToDicts(prev_rows)
                   /\ curr_dicts' = ToDicts(curr_rows)
                   /\ matched_indices_prev' = {}
                   /\ matched_indices_curr' = {}
                   /\ changes' = <<>>
                   /\ p_idx' = 1
                   /\ c_idx' = 1
                   /\ pc' = "match_prev"
                   /\ UNCHANGED <<f, flags>>
              ELSE UNCHANGED <<pc, f, flags, matching>>
  /\ UNCHANGED <<file_paths, i>>

CurrentMatching == Matching(matched_indices_prev, matched_indices_curr, changes)

SetMatching(m) ==
  /\ matched_indices_prev' = m.matched_indices_prev
  /\ matched_indices_curr' = m.matched_indices_curr
  /\ changes' = m.changes

\* Lines 321-332: one previous row scans the current rows.
MatchPrev ==
  /\ pc = "match_prev"
  /\ SetMatching(MatchPrevStep(CurrentMatching, prev_dicts, curr_dicts, p_idx))
  /\ IF p_idx < Len(prev_dicts)
     THEN /\ p_idx' = p_idx + 1
          /\ pc' = "match_prev"
     ELSE /\ p_idx' = p_idx
          /\ pc' = "match_curr"
  /\ UNCHANGED <<file_paths, i, f, orders, all_part_locations, part_loc, flags,
                 prev_dicts, curr_dicts, c_idx>>

\* Lines 334-347: one current row, if still unmatched, scans the previous rows.
MatchCurr ==
  /\ pc = "match_curr"
  /\ SetMatching(MatchCurrStep(CurrentMatching, prev_dicts, curr_dicts, c_idx))
  /\ IF c_idx < Len(curr_dicts)
     THEN /\ c_idx' = c_idx + 1
          /\ pc' = "match_curr"
     ELSE /\ c_idx' = c_idx
          /\ pc' = "write_changes"
  /\ UNCHANGED <<file_paths, i, f, orders, all_part_locations, part_loc, flags,
                 prev_dicts, curr_dicts, p_idx>>

\* Lines 349-375: the key's changes are written, if there are any and no row matched.
ReportChanges ==
  /\ pc = "write_changes"
  /\ SetWriter(WriteChanges(CurrentWriter, part_loc, CurrentMatching, df_prev.columns))
  /\ pc' = "keys"
  /\ UNCHANGED <<file_paths, i, orders, all_part_locations, part_loc, matching>>

\* Lines 376-380: every key was iterated; the comparison is closed.
EndPair ==
  /\ pc = "keys"
  /\ all_part_locations = {}
  /\ f' = [f EXCEPT ![Len(f)] = WriteEnd(CurrentWriter).lines]
  /\ NextPair
  /\ UNCHANGED <<file_paths, orders, all_part_locations, part_loc, flags, matching>>

Next ==
  \/ Start
  \/ ReadPair
  \/ CheckKeyColumn
  \/ NextKey
  \/ MatchPrev
  \/ MatchCurr
  \/ ReportChanges
  \/ EndPair

Spec == Init /\ [][Next]_vars

SpecKeys == InitKeys /\ [][Next]_vars

SpecRun == InitRun /\ [][Next]_vars

\* ------------------------------------------- one comparison, as a function
\* Lines 316-347: the two matching loops, run to their end.
RECURSIVE PrevPass(_, _, _, _)
PrevPass(m, pd, cd, p) ==
  IF p > Len(pd) THEN m ELSE PrevPass(MatchPrevStep(m, pd, cd, p), pd, cd, p + 1)

RECURSIVE CurrPass(_, _, _, _)
CurrPass(m, pd, cd, c) ==
  IF c > Len(cd) THEN m ELSE CurrPass(MatchCurrStep(m, pd, cd, c), pd, cd, c + 1)

MatchRows(pd, cd) == CurrPass(PrevPass(Matching({}, {}, <<>>), pd, cd, 1), pd, cd, 1)

\* The matching of key k of both sheets.
MatchKey(prev, curr, k) ==
  MatchRows(ToDicts(GetGroup(prev, k)), ToDicts(GetGroup(curr, k)))

\* Lines 283-375: the loop body for one key.
ProcessKey(w, prev, curr, k) ==
  IF k \notin GroupKeys(prev) THEN WriteAdded(w, k, GetGroup(curr, k))
  ELSE IF k \notin GroupKeys(curr) THEN WriteRemoved(w, k, GetGroup(prev, k))
  ELSE IF GetGroup(prev, k) # <<>> /\ GetGroup(curr, k) # <<>>
  THEN WriteChanges(w, k, MatchKey(prev, curr, k), prev.columns)
  ELSE w

RECURSIVE ProcessKeys(_, _, _, _)
ProcessKeys(w, prev, curr, order) ==
  IF order = <<>> THEN w
  ELSE ProcessKeys(ProcessKey(w, prev, curr, Head(order)), prev, curr, Tail(order))

\* Lines 277-380: what one comparison of prev and curr alone writes after its
\* header, when the set iteration yields the keys in this order.
ComparePair(prev, curr, order) ==
  WriteEnd(ProcessKeys(Writer(<<>>, FALSE, FALSE, FALSE), prev, curr, order)).lines

\* The orders in which a set may be iterated.
Perms(S) ==
  {s \in [1..Cardinality(S) -> S] : \A a, b \in 1..Cardinality(S) : a # b => s[a] # s[b]}

\* ------------------------------------------------------ reading the report
Done == pc = "done"

Range(s) == {s[x] : x \in 1..Len(s)}

\* Pair n (files n and n+1) was read and has the key column on both sides.
Readable(n) == file_paths[n].readable /\ file_paths[n + 1].readable
HasKeyColumn(n) ==
  PartLocation \in file_paths[n].columns /\ PartLocation \in file_paths[n + 1].columns
Compared(n) == Readable(n) /\ HasKeyColumn(n)

PairKeys(n) == GroupKeys(file_paths[n]) \cup GroupKeys(file_paths[n + 1])
CommonKeys(n) == GroupKeys(file_paths[n]) \cap GroupKeys(file_paths[n + 1])

\* The rows a section reports for key k under the added (removed) heading.
RowsReported(sec, kind, k) ==
  LET es == SelectSeq(sec, LAMBDA e : e.t = kind /\ e.key = k)
  IN  [x \in 1..Len(es) |-> es[x].row]

KeysReported(sec, kind) == {e.key : e \in {d \in Range(sec) : d.t = kind}}

KeyEntryKinds == {"Added", "Removed", "Changed"}

\* The key entries of a section, in the order written.
KeyEntries(sec) == SelectSeq(sec, LAMBDA e : e.t \in KeyEntryKinds)

\* The rows of dicts at the indices not in matched, in order.
RECURSIVE UnmatchedFrom(_, _, _)
UnmatchedFrom(dicts, matched, x) ==
  IF x > Len(dicts) THEN <<>>
  ELSE (IF x \in matched THEN <<>> ELSE <<dicts[x]>>) \o UnmatchedFrom(dicts, matched, x + 1)

Unmatched(dicts, matched) == UnmatchedFrom(dicts, matched, 1)

LinesOf(lines, kind) ==
  LET ls == SelectSeq(lines, LAMBDA l : l.t = kind)
  IN  [x \in 1..Len(ls) |-> ls[x].row]

\* The matching of part_loc has ended and its changes were handled:
\* matched_indices_prev, matched_indices_curr and changes are those of part_loc.
KeyHandled ==
  /\ pc = "keys"
  /\ orders[Len(orders)] # <<>>
  /\ part_loc = orders[Len(orders)][Len(orders[Len(orders)])]
  /\ part_loc \in CommonKeys(i)

\* The section being written.
Section == f[Len(f)]

\* The entries of a section about key k.
EntriesOf(sec, k) == SelectSeq(sec, LAMBDA e : e.t \in KeyEntryKinds /\ e.key = k)

MinOf(a, b) == IF a <= b THEN a ELSE b

\* ------------------------------------------------------------------ claims

\* C1 as stated: when the matching of a key of both files found at least one
\* exact match and left rows unmatched, the key is reported as changed with
\* one removed row per unmatched previous row and one added row per unmatched
\* current row, and no changed row.
C1_LeftoversReportedIndividually ==
  (KeyHandled /\ matched_indices_prev # {} /\ changes # <<>>) =>
    \E e \in Range(EntriesOf(Section, part_loc)) :
      /\ e.t = "Changed"
      /\ LinesOf(e.lines, "Row Removed") = Unmatched(prev_dicts, matched_indices_prev)
      /\ LinesOf(e.lines, "Row Added") = Unmatched(curr_dicts, matched_indices_curr)
      /\ \A l \in Range(e.lines) : l.t # "Row Changed"

\* C1 as amended: in that case nothing at all is written for the key (it is
\* not reported as changed, no row of it is reported as added or removed), and
\* no entry of changes pairs a previous row with a current row.
C1_LeftoversNotReported ==
  (KeyHandled /\ matched_indices_prev # {} /\ changes # <<>>) =>
    /\ EntriesOf(Section, part_loc) = <<>>
    /\ \A ch \in Range(changes) : (ch.previous = None) # (ch.current = None)

\* A key of both files whose matching found a match and left a previous row
\* and a current row unmatched, after its changes were handled.
C1_Witness ==
  /\ KeyHandled
  /\ matched_indices_prev # {}
  /\ \E ch \in Range(changes) : ch.previous # None
  /\ \E ch \in Range(changes) : ch.current # None

\* C2: when the matching of a key of both files (two sheets of the same
\* columns) found no exact match, the key is reported as changed; the previous and current rows are aligned by
\* position, each aligned pair is one changed row listing the differing
\* columns, and only the surplus rows of the longer side are removed or added
\* rows.
C2_ZeroMatchesPairedAsChanged ==
  (KeyHandled /\ df_prev.columns = df_curr.columns /\ matched_indices_prev = {}) =>
    LET n == MinOf(Len(prev_dicts), Len(curr_dicts))
    IN  \E e \in Range(EntriesOf(Section, part_loc)) :
          /\ e.t = "Changed"
          /\ Len(SelectSeq(e.lines, LAMBDA l : l.t = "Row Changed")) = n
          /\ \A y \in 1..n :
               Range(ChangeLines([previous |-> prev_dicts[y], current |-> curr_dicts[y]],
                                 df_prev.columns)) \subseteq Range(e.lines)
          /\ LinesOf(e.lines, "Row Removed") = SubSeq(prev_dicts, n + 1, Len(prev_dicts))
          /\ LinesOf(e.lines, "Row Added") = SubSeq(curr_dicts, n + 1, Len(curr_dicts))

\* C3: comparing (A, B) reports key k as added with exactly the rows of B's
\* group if and only if comparing (B, A) reports k as removed with exactly
\* those rows, and the same with added and removed exchanged; k is reported
\* as added exactly when it is a key of B and not of A, and as removed exactly
\* when it is a key of A and not of B.
C3_AddedRemovedSymmetric ==
  (Done /\ Compared(1)) =>
    LET A == file_paths[1]
        B == file_paths[2]
        ab == f[1]
    IN  \A o \in Perms(PairKeys(1)) :
          LET ba == ComparePair(B, A, o)
          IN  \A k \in PairKeys(1) :
                /\ (k \in KeysReported(ab, "Added") /\ RowsReported(ab, "Added", k) = GetGroup(B, k))
                     <=> (k \in KeysReported(ba, "Removed")
                            /\ RowsReported(ba, "Removed", k) = GetGroup(B, k))
                /\ (k \in KeysReported(ab, "Removed")
                       /\ RowsReported(ab, "Removed", k) = GetGroup(A, k))
                     <=> (k \in KeysReported(ba, "Added")
                            /\ RowsReported(ba, "Added", k) = GetGroup(A, k))
                /\ k \in KeysReported(ab, "Added") <=> (k \in GroupKeys(B) \ GroupKeys(A))
                /\ k \in KeysReported(ab, "Removed") <=> (k \in GroupKeys(A) \ GroupKeys(B))

\* A finished comparison with a key of two rows only in the current file and
\* a key only in the previous file.
C3_Witness ==
  /\ Done
  /\ Compared(1)
  /\ \E k \in GroupKeys(file_paths[2]) \ GroupKeys(file_paths[1]) :
       Len(GetGroup(file_paths[2], k)) = 2
  /\ GroupKeys(file_paths[1]) \ GroupKeys(file_paths[2]) # {}

\* The heading a key entry belongs under.
HeaderOf(kind) ==
  CASE kind = "Added" -> AddedHeader
    [] kind = "Removed" -> RemovedHeader
    [] kind = "Changed" -> ChangesHeader

Headers == {AddedHeader, RemovedHeader, ChangesHeader}

\* The last heading written before position x of a section.
HeaderAbove(sec, x) ==
  LET hs == {y \in 1..(x - 1) : sec[y] \in Headers}
  IN  IF hs = {} THEN None ELSE sec[CHOOSE y \in hs : \A z \in hs : z <= y]

\* C4: in every section of the report, whatever the order in which the keys
\* were iterated, every added key stands under the added heading, every
\* removed key under the removed heading and every changed key under the
\* changes heading, and the key entries are in the order of iteration.
C4_KeysUnderTheirHeading ==
  \A n \in 1..Len(f) :
    /\ \A x \in 1..Len(f[n]) :
         f[n][x].t \in KeyEntryKinds => HeaderAbove(f[n], x) = HeaderOf(f[n][x].t)
    /\ \A x, y \in 1..Len(KeyEntries(f[n])) :
         LET ex == KeyEntries(f[n])[x]
             ey == KeyEntries(f[n])[y]
         IN  (x < y /\ ex.key # ey.key) =>
               \E a, b \in 1..Len(orders[n]) :
                 a < b /\ orders[n][a] = ex.key /\ orders[n][b] = ey.key

\* The marker is in section n.
MarkerWritten(n) == NoDifferences \in Range(f[n])

\* C5 as stated: a finished comparison has the "No differences found" marker
\* exactly when no key is added, no key is removed and no key of both files
\* has an unmatched row on either side.
C5_MarkerIffNoUnmatchedRow ==
  \A n \in 1..Len(f) :
    (Compared(n) /\ (n < Len(f) \/ Done)) =>
      (MarkerWritten(n) <=>
         /\ GroupKeys(file_paths[n]) = GroupKeys(file_paths[n + 1])
         /\ \A k \in CommonKeys(n) :
              MatchKey(file_paths[n], file_paths[n + 1], k).changes = <<>>)

\* C5 as amended: a finished comparison has the marker exactly when no key
\* entry was written in it, which is exactly when no key is added, no key is
\* removed and every key of both files has at least one exact match or no
\* unmatched row.
C5_MarkerIffNothingWritten ==
  \A n \in 1..Len(f) :
    (Compared(n) /\ (n < Len(f) \/ Done)) =>
      /\ MarkerWritten(n) <=> KeyEntries(f[n]) = <<>>
      /\ MarkerWritten(n) <=>
           /\ GroupKeys(file_paths[n]) = GroupKeys(file_paths[n + 1])
           /\ \A k \in CommonKeys(n) :
                LET m == MatchKey(file_paths[n], file_paths[n + 1], k)
                IN  m.changes = <<>> \/ m.matched_indices_prev # {}

\* A finished comparison with the marker although a key of both files has an
\* unmatched row.
C5_Witness ==
  /\ Done
  /\ Compared(1)
  /\ MarkerWritten(1)
  /\ \E k \in CommonKeys(1) : MatchKey(file_paths[1], file_paths[2], k).changes # <<>>

\* What the comparison of pair n alone writes, with the header of iteration n.
Alone(n) ==
  <<ComparisonHeader(n)>> \o ComparePair(file_paths[n], file_paths[n + 1], orders[n])

Pairs == 1..(Len(file_paths) - 1)

\* C6: when every file of a run of N >= 2 files loads and has the key
\* column, the report has exactly N-1 comparisons, the n-th for files n and
\* n+1, each with the content a run over that pair alone gives (for the same
\* iteration order of its keys).
C6_OneComparisonPerConsecutivePair ==
  (Done /\ \A n \in Pairs : Compared(n)) =>
    /\ Len(f) = Len(file_paths) - 1
    /\ \A n \in Pairs : f[n] = Alone(n)

\* A finished run over three files in which both comparisons wrote key entries.
C6_Witness ==
  /\ Done
  /\ Len(file_paths) = 3
  /\ \A n \in Pairs : Compared(n)
  /\ \A n \in Pairs : KeyEntries(f[n]) # <<>>

\* Pair n was read and one of its sheets has no key column.
MissingKey(n) == Readable(n) /\ ~HasKeyColumn(n)

\* C7: when a sheet of pair n lacks the key column, the run does not fail
\* and goes on until it returns; when it returns, every pair has its section,
\* the section of pair n is the one diagnostic entry and nothing else, and the
\* section of every compared pair is what that pair alone gives.
C7_MissingKeyColumnSkipsThePairOnly ==
  \A n \in Pairs :
    MissingKey(n) =>
      /\ pc # "raised"
      /\ ~Done => ENABLED Next
      /\ n <= Len(f) => f[n] = <<MissingKeyColumn(n)>>
      /\ Done => /\ Len(f) = Len(file_paths) - 1
                 /\ \A j \in Pairs : Compared(j) => f[j] = Alone(j)

\* A finished run over three files whose first pair lacks the key column and
\* whose second pair was compared and wrote key entries.
C7_Witness ==
  /\ Done
  /\ Len(file_paths) = 3
  /\ MissingKey(1)
  /\ Compared(2)
  /\ KeyEntries(f[2]) # <<>>

\* C8 as stated: when a file of pair n cannot be read, the failure leaves
\* compare_excel_files: the run never returns the report, and no error entry
\* is written for the pair.
C8_LoadErrorPropagated ==
  \A n \in Pairs :
    ~Readable(n) =>
      /\ ~Done
      /\ n <= Len(f) => ReadError(n) \notin Range(f[n])

\* C8 as amended: when a file of pair n cannot be read, the failure is caught:
\* the run does not fail and goes on until it returns, the section of pair n
\* is one error entry and nothing else (written once, the read is not tried
\* again), and when the run returns every pair has its section.
C8_LoadErrorWrittenAndPairSkipped ==
  \A n \in Pairs :
    ~Readable(n) =>
      /\ pc # "raised"
      /\ ~Done => ENABLED Next
      /\ n <= Len(f) => f[n] = <<ReadError(n)>>
      /\ Done => Len(f) = Len(file_paths) - 1

\* A finished run over three files whose first file cannot be read and whose
\* second pair was compared.
C8_Witness ==
  /\ Done
  /\ Len(file_paths) = 3
  /\ ~Readable(1)
  /\ Compared(2)
  /\ f[1] = <<ReadError(1)>>

\* C9: two runs over the same files write the same sequence of key entries:
\* whatever order the iteration of the key set takes in another run, the key
\* entries of its comparison are those of this run, in the same order.
C9_SameKeyEntriesInEveryRun ==
  (Done /\ Compared(1)) =>
    \A o \in Perms(PairKeys(1)) :
      KeyEntries(ComparePair(file_paths[1], file_paths[2], o)) = KeyEntries(f[1])

\* The sheets of pair n have different columns (both have the key column).
SchemaDiffers(n) == Compared(n) /\ file_paths[n].columns # file_paths[n + 1].columns

\* C10: when the sheets of a pair have different columns, the rows of a key
\* of both sheets are not compared field by field with every row left
\* unmatched; the mismatch is reported in the pair's section.
C10_SchemaMismatchReported ==
  (KeyHandled /\ SchemaDiffers(i)) =>
    /\ \E e \in Range(Section) : e.t = "SchemaMismatch"
    /\ Len(changes) < Len(prev_dicts) + Len(curr_dicts)

\* How many times row r occurs in dicts.
Count(dicts, r) == Cardinality({x \in 1..Len(dicts) : dicts[x] = r})

\* The two groups hold the same rows with the same multiplicities.
SameMultiset(pd, cd) ==
  \A r \in Range(pd) \cup Range(cd) : Count(pd, r) = Count(cd, r)

Reorderings(dicts) ==
  {[x \in 1..Len(dicts) |-> dicts[q[x]]] : q \in Perms(1..Len(dicts))}

\* The set of row deltas written in the entries of a key.
DeltasOf(entries) ==
  UNION {Range(e.lines) : e \in {x \in Range(entries) : x.t = "Changed"}}

\* What the matching and the report of lines 321-375 write for key k whose
\* groups are pd and cd.
ChangesWritten(k, pd, cd, columns) ==
  WriteChanges(Writer(<<>>, FALSE, FALSE, FALSE), k, MatchRows(pd, cd), columns).lines

\* C12: for a key of both files, the set of row deltas written for the key is
\* the same for every order of the rows of the previous group and every order
\* of the rows of the current group.
C12_RowOrderDoesNotChangeDeltas ==
  KeyHandled =>
    \A pd \in Reorderings(prev_dicts), cd \in Reorderings(curr_dicts) :
      DeltasOf(ChangesWritten(part_loc, pd, cd, df_prev.columns))
        = DeltasOf(EntriesOf(Section, part_loc))

\* A key with two different previous rows, so that reordering is a change,
\* for which row deltas were written.
C12_Witness ==
  /\ KeyHandled
  /\ Len(prev_dicts) = 2
  /\ prev_dicts[1] # prev_dicts[2]
  /\ DeltasOf(EntriesOf(Section, part_loc)) # {}

\* The rows that the row deltas of one entry refer to.
RowsReferenced(e) ==
  {l.row : l \in {x \in Range(e.lines) : x.t \in {"Row Removed", "Row Added"}}}

\* C13: for a key written under the changes heading, the rows that its row
\* deltas refer to are, taken together, exactly the rows of the previous group
\* and of the current group of that key.
C13_DeltasCoverBothGroups ==
  KeyHandled =>
    \A e \in Range(EntriesOf(Section, part_loc)) :
      e.t = "Changed" =>
        RowsReferenced(e) =
          {DropKey(r) : r \in Range(GetGroup(df_prev, part_loc))
                               \cup Range(GetGroup(df_curr, part_loc))}

\* The size of the multiset intersection of the two groups: the pairs of a row
\* and a number up to its multiplicity in both groups.
IntersectionSize(pd, cd) ==
  Cardinality({rn \in Range(pd) \X (1..Len(pd)) :
                 rn[2] <= Count(pd, rn[1]) /\ rn[2] <= Count(cd, rn[1])})

\* The matched indices can be paired one to one, equal row with equal row.
OneToOnePairing ==
  \E g \in [matched_indices_prev -> matched_indices_curr] :
    /\ \A a, b \in matched_indices_prev : a # b => g[a] # g[b]
    /\ \A c \in matched_indices_curr : \E a \in matched_indices_prev : g[a] = c
    /\ \A a \in matched_indices_prev : RowEq(prev_dicts[a], curr_dicts[g[a]])

\* The first pass (lines 321-332) of the current key is over.
FirstPassOver == pc \in {"match_curr", "write_changes"}

MatchingInvariant ==
  /\ matched_indices_prev \subseteq 1..Len(prev_dicts)
  /\ matched_indices_curr \subseteq 1..Len(curr_dicts)
  /\ Cardinality(matched_indices_prev) = Cardinality(matched_indices_curr)
  /\ OneToOnePairing
  /\ FirstPassOver =>
       /\ \A p \in 1..Len(prev_dicts) \ matched_indices_prev,
             c \in 1..Len(curr_dicts) \ matched_indices_curr :
             ~RowEq(prev_dicts[p], curr_dicts[c])
       /\ Cardinality(matched_indices_prev) = IntersectionSize(prev_dicts, curr_dicts)

\* A step of the second pass (lines 334-347) records no match.
SecondPassRecordsNoMatch ==
  pc = "match_curr" => UNCHANGED <<matched_indices_prev, matched_indices_curr>>

\* C14: in the matching of one key the matched rows form a one-to-one pairing
\* of equal rows and the two sets of matched indices always have the same
\* size; once the first pass is over no unmatched previous row equals an
\* unmatched current row, the second pass records no match, and the number of
\* matches is the size of the multiset intersection of the two groups.
C14_MatchingIsOneToOneAndMaximal ==
  []MatchingInvariant /\ [][SecondPassRecordsNoMatch]_vars

\* Both passes are over for two groups with a repeated row, of which one copy
\* was matched and the other was not.
C14_Witness ==
  /\ pc = "write_changes"
  /\ Len(prev_dicts) = 2
  /\ prev_dicts[1] = prev_dicts[2]
  /\ matched_indices_prev = {1}
  /\ Len(curr_dicts) = 2
  /\ matched_indices_curr = {2}
  /\ Len(changes) = 2

====
